---- MODULE Spec2Model ----
(***************************************************************************)
(* A model of the AWS Infrastructure Advisor command line program:         *)
(* main() of main.py (backend selection, the four scoped MCP client        *)
(* sessions, tool aggregation, consultant construction, the interactive    *)
(* loop and the single query mode, the transcript flush) together with     *)
(* AWSConsultantAgent.ask of agents/base.py and ConversationManager.       *)
(*                                                                         *)
(* A Python str is a sequence of one-character strings.  The external      *)
(* collaborators (the Strands Agent, MCPClient, OllamaModel, the file      *)
(* system, the terminal) are nondeterministic: every call into them picks  *)
(* one of the outcomes the call can have.                                  *)
(***************************************************************************)
EXTENDS Integers, Sequences, FiniteSets, TLC

\* ------------------------------------------------------------------ bounds
\* most exchanges of one interactive conversation / one recorder
MaxExchanges == 2
\* most positional query words on the command line
MaxWords == 2
\* most tools one MCP server advertises
MaxTools == 1
\* the wall clock, in whole seconds after the start of the run
MaxTime == 1
\* most list_tools calls made on one MCPClientManager by a caller other
\* than main, which makes one
MaxCalls == 3

\* ----------------------------------------------------------------- strings
Whitespace == {" ", "\t", "\n", "\r", "\f"}

UpperCase ==
    <<"A","B","C","D","E","F","G","H","I","J","K","L","M",
      "N","O","P","Q","R","S","T","U","V","W","X","Y","Z">>

LowerCase ==
    <<"a","b","c","d","e","f","g","h","i","j","k","l","m",
      "n","o","p","q","r","s","t","u","v","w","x","y","z">>

\* str.lower() on one character
LowerChar(c) ==
    IF \E i \in 1..Len(UpperCase) : UpperCase[i] = c
    THEN LowerCase[CHOOSE i \in 1..Len(UpperCase) : UpperCase[i] = c]
    ELSE c

\* a faulty variant of Lower: the comparison is case-sensitive
Lower_CaseSensitive(s) == s

\* str.lower()
Lower(s) == [i \in 1..Len(s) |-> LowerChar(s[i])]

RECURSIVE LStrip(_)
\* str.lstrip(): drops the leading whitespace
LStrip(s) ==
    IF s # <<>> /\ s[1] \in Whitespace THEN LStrip(Tail(s)) ELSE s

RECURSIVE RStrip(_)
\* str.rstrip(): drops the trailing whitespace
RStrip(s) ==
    IF s # <<>> /\ s[Len(s)] \in Whitespace
    THEN RStrip(SubSeq(s, 1, Len(s) - 1))
    ELSE s

\* a faulty variant of Strip: only the leading whitespace is dropped
Strip_LeftOnly(s) == LStrip(s)

\* str.strip()
Strip(s) == RStrip(LStrip(s))

RECURSIVE Join_NoSeparator(_, _)
\* a faulty variant of Join: the words are concatenated with nothing between them
Join_NoSeparator(sep, words) ==
    IF words = <<>> THEN <<>>
    ELSE Head(words) \o Join_NoSeparator(sep, Tail(words))

RECURSIVE Join(_, _)
\* sep.join(words)
Join(sep, words) ==
    IF words = <<>> THEN <<>>
    ELSE IF Len(words) = 1 THEN Head(words)
    ELSE Head(words) \o sep \o Join(sep, Tail(words))

RECURSIVE Concat(_)
\* list + list + ... over a sequence of lists
Concat(lists) ==
    IF lists = <<>> THEN <<>> ELSE Head(lists) \o Concat(Tail(lists))

\* all sequences over S of length at most n
SeqsUpTo(S, n) == UNION {[1..k -> S] : k \in 0..n}

\* --------------------------------------------------- agents/base.py: ask
\* f"Error processing request: {...}"
ErrorMarker ==
    <<"E","r","r","o","r"," ","p","r","o","c","e","s","s","i","n","g"," ",
      "r","e","q","u","e","s","t",":"," ">>

\* what one call self._agent(question) can do: return an AgentResult, raise
\* an Exception, or be cut short by the KeyboardInterrupt of a Ctrl-C (a
\* BaseException, which "except Exception" does not catch)
AgentResults ==
    {[type |-> "AgentResult", text |-> <<"o","k">>]}

AgentErrors ==
    {[type |-> "Exception", text |-> <<"t","i","m","e","o","u","t">>]}

AgentOutcomes ==
    AgentResults \cup AgentErrors
        \cup {[type |-> "KeyboardInterrupt", text |-> <<>>]}

\* str(response), str(e): the text of the result, the message of the error
Str(obj) == obj.text

\* not question or not question.strip()
IsBlank(question) == question = <<>> \/ Strip(question) = <<>>

\* a faulty variant of Ask: the except clause re-raises instead of returning
Ask_Reraise(question, outcome) ==
    IF IsBlank(question)
    THEN [raises |-> "ValueError", msg |-> "question cannot be empty",
          value |-> <<>>, invoked |-> FALSE]
    ELSE IF outcome.type = "AgentResult"
    THEN [raises |-> "none", msg |-> "", value |-> Str(outcome),
          invoked |-> TRUE]
    ELSE [raises |-> outcome.type, msg |-> "", value |-> <<>>,
          invoked |-> TRUE]

\* a faulty variant of Ask: the question is not validated before the backend call
Ask_NoValidation(question, outcome) ==
    IF outcome.type = "AgentResult"
    THEN [raises |-> "none", msg |-> "", value |-> Str(outcome),
          invoked |-> TRUE]
    ELSE IF outcome.type = "Exception"
    THEN [raises |-> "none", msg |-> "",
          value |-> ErrorMarker \o Str(outcome), invoked |-> TRUE]
    ELSE [raises |-> "KeyboardInterrupt", msg |-> "", value |-> <<>>,
          invoked |-> TRUE]

\* a faulty variant of Ask: the blank check is inside the try block, so its
\* ValueError comes back as an error string like a backend failure
Ask_ValidatesInsideTry(question, outcome) ==
    IF IsBlank(question)
    THEN [raises |-> "none", msg |-> "",
          value |-> ErrorMarker \o <<"e","m","p","t","y">>,
          invoked |-> FALSE]
    ELSE IF outcome.type = "AgentResult"
    THEN [raises |-> "none", msg |-> "", value |-> Str(outcome),
          invoked |-> TRUE]
    ELSE IF outcome.type = "Exception"
    THEN [raises |-> "none", msg |-> "",
          value |-> ErrorMarker \o Str(outcome), invoked |-> TRUE]
    ELSE [raises |-> "KeyboardInterrupt", msg |-> "", value |-> <<>>,
          invoked |-> TRUE]

\* AWSConsultantAgent.ask(question), with the outcome of the backend call it
\* makes: what it raises ("none" when it returns), the string it returns,
\* and whether the backend agent was invoked
Ask(question, outcome) ==
    IF IsBlank(question)
    THEN [raises |-> "ValueError", msg |-> "question cannot be empty",
          value |-> <<>>, invoked |-> FALSE]
    ELSE IF outcome.type = "AgentResult"
    THEN [raises |-> "none", msg |-> "", value |-> Str(outcome),
          invoked |-> TRUE]
    ELSE IF outcome.type = "Exception"
    THEN [raises |-> "none", msg |-> "",
          value |-> ErrorMarker \o Str(outcome), invoked |-> TRUE]
    ELSE [raises |-> "KeyboardInterrupt", msg |-> "", value |-> <<>>,
          invoked |-> TRUE]

\* AWSConsultant.consult(user_request)
Consult(user_request, outcome) == Ask(user_request, outcome)

\* --------------------------------------- main.py: ConversationManager
\* the record add_exchange appends
Exchange(user_input, assistant_response, t) ==
    [user |-> user_input, assistant |-> assistant_response, timestamp |-> t]

\* ConversationManager.add_exchange
AddExchange(hist, user_input, assistant_response, t) ==
    Append(hist, Exchange(user_input, assistant_response, t))

\* the parts save_conversation writes, in order: the header, one block per
\* exchange numbered from 1, the footer
Part(kind, n, user, assistant) ==
    [kind |-> kind, num |-> n, user |-> user, assistant |-> assistant]

\* a faulty variant of Transcript: the blocks are numbered from 0
Transcript_FromZero(hist) ==
    <<Part("header", 0, <<>>, <<>>)>>
        \o [i \in 1..Len(hist) |->
              Part("exchange", i - 1, hist[i].user, hist[i].assistant)]
        \o <<Part("footer", 0, <<>>, <<>>)>>

Transcript(hist) ==
    <<Part("header", 0, <<>>, <<>>)>>
        \o [i \in 1..Len(hist) |->
              Part("exchange", i, hist[i].user, hist[i].assistant)]
        \o <<Part("footer", 0, <<>>, <<>>)>>

\* open(output_file, 'w') and the writes: the file of that name now holds
\* `content`
WriteFile(fileset, stamp, content) ==
    {f \in fileset : f.stamp # stamp}
        \cup {[stamp |-> stamp, content |-> content]}

\* what the file system does to one save_conversation call: nothing, or a
\* failure of mkdir, of open, or of a write after k parts reached the file
IOFaults ==
    {[fault |-> "none", k |-> 0], [fault |-> "mkdir", k |-> 0],
     [fault |-> "open", k |-> 0]}
        \cup {[fault |-> "write", k |-> k] : k \in 0..2}

NoPath == [none |-> TRUE, stamp |-> 0]

Path(stamp) == [none |-> FALSE, stamp |-> stamp]

\* ConversationManager.save_conversation() on history `hist`, with
\* `outdir` the state of the path "outputs" ("absent", "dir", or "file"
\* when a regular file has that name), `fileset` the files in it, `io` what
\* the file system does and `t` the clock: what it raises, what it returns,
\* whether it printed the warning, and the file system afterwards
SaveConversation(hist, outdir, fileset, io, t) ==
    IF hist = <<>>
    THEN [raises |-> "none", ret |-> NoPath, warned |-> FALSE,
          outdir |-> outdir, files |-> fileset]
    ELSE IF outdir = "file" \/ (outdir = "absent" /\ io.fault = "mkdir")
    THEN \* output_dir.mkdir(exist_ok=True) is outside the try block
         [raises |-> "OSError", ret |-> NoPath, warned |-> FALSE,
          outdir |-> outdir, files |-> fileset]
    ELSE IF io.fault = "open"
    THEN [raises |-> "none", ret |-> NoPath, warned |-> TRUE,
          outdir |-> "dir", files |-> fileset]
    ELSE IF io.fault = "write"
    THEN [raises |-> "none", ret |-> NoPath, warned |-> TRUE,
          outdir |-> "dir",
          files |-> WriteFile(fileset, t,
                              SubSeq(Transcript(hist), 1, io.k))]
    ELSE [raises |-> "none", ret |-> Path(t), warned |-> FALSE,
          outdir |-> "dir",
          files |-> WriteFile(fileset, t, Transcript(hist))]

\* ------------------------------------------------------- main.py: main
\* the order of the with statement of main: documentation, terraform, cdk,
\* pricing
AcquireOrder == <<"documentation", "terraform", "cdk", "pricing">>

\* the keys of the dict get_mcp_servers_with_profile returns, in the order
\* the dict literal lists them
ConfiguredOrder == <<"pricing", "cdk", "documentation", "terraform">>

Providers == {AcquireOrder[i] : i \in 1..Len(AcquireOrder)}

ToolNames == {"search", "read"}

\* client.list_tools_sync(): the tools the server advertises, each bound to
\* the client that listed it
ListToolsSync(p, names) ==
    [i \in 1..Len(names) |-> [server |-> p, name |-> names[i]]]

\* a variant of list_tools that keeps the first list it got: a later call
\* returns it without asking the client again
list_tools_Memoized(p, self, names) == IF self.populated THEN [value |-> self.tools, round_trips |-> 0] ELSE [value |-> ListToolsSync(p, names), round_trips |-> 1]

\* MCPClientManager.list_tools: return self.client.list_tools_sync(), one
\* request to the server on every call; the manager (self) keeps no list
list_tools(p, self, names) == [value |-> ListToolsSync(p, names), round_trips |-> 1]

\* a faulty variant of CombineTools: a tool whose name was already seen is
\* dropped
CombineTools_Dedup(documentation_tools, terraform_tools, cdk_tools, pricing_tools) ==
    LET all == documentation_tools \o terraform_tools \o cdk_tools
                   \o pricing_tools
        first(i) == \A j \in 1..(i - 1) : all[j].name # all[i].name
        kept == SelectSeq([i \in 1..Len(all) |-> i], first)
    IN  [k \in 1..Len(kept) |-> all[kept[k]]]

\* a faulty variant of CombineTools: the lists are added in the order of
\* the configuration dict
CombineTools_ConfiguredOrder(documentation_tools, terraform_tools, cdk_tools, pricing_tools) ==
    pricing_tools \o cdk_tools \o documentation_tools \o terraform_tools

\* all_tools = documentation_tools + terraform_tools + cdk_tools
\*             + pricing_tools
CombineTools(documentation_tools, terraform_tools, cdk_tools, pricing_tools) ==
    documentation_tools \o terraform_tools \o cdk_tools \o pricing_tools

\* AWS_CONSULTANT_SYSTEM_PROMPT, by its first word
SystemPrompt == <<"Y", "o", "u">>

NoConsultant ==
    [made |-> FALSE, tools |-> <<>>, model |-> "None", agent_config |-> {}]

\* a faulty variant of NewConsultant: the agent is always built on the
\* default (remote) model
NewConsultant_AlwaysRemote(all_tools, model) ==
    [made |-> TRUE, tools |-> all_tools, model |-> "None",
     agent_config |-> {"system_prompt"}
         \cup (IF all_tools # <<>> THEN {"tools"} ELSE {})]

\* AWSConsultant(all_tools, model=model): the fields __init__ sets and the
\* keys _create_agent passes to Agent
NewConsultant(all_tools, model) ==
    [made |-> TRUE, tools |-> all_tools, model |-> model,
     agent_config |-> {"system_prompt"}
         \cup (IF model # "None" THEN {"model"} ELSE {})
         \cup (IF all_tools # <<>> THEN {"tools"} ELSE {})]

\* user_input.lower() in ['exit', 'quit', 'bye', 'q']
ExitCommands ==
    {<<"e","x","i","t">>, <<"q","u","i","t">>, <<"b","y","e">>, <<"q">>}

\* a faulty variant of IsExitCommand: only the commands of the welcome text
IsExitCommand_NoQ(user_input) ==
    Lower(user_input) \in ExitCommands \ {<<"q">>}

IsExitCommand(user_input) == Lower(user_input) \in ExitCommands

\* the lines a user types at the "You: " prompt
InputLines ==
    {<<>>, <<" ", " ">>, <<"q">>, <<"Q">>, <<" ", "b","y","e", " ">>,
     <<"Q","u","i","t">>, <<"E","X","I","T">>, <<"e","x","i","t">>,
     <<"a">>, <<" ", "a", " ", "b", " ">>, <<"e","x","i","t","s">>}

\* the words of the positional argument `query`
QueryWords == {<<"a">>, <<" ">>, <<>>}

\* args.query: no word (interactive mode) or up to MaxWords words
QueryArgs == SeqsUpTo(QueryWords, MaxWords)

\* a faulty variant of PopSession: leaving the scope forgets the other
\* sessions without closing them
PopSession_DropAll(stack) == <<>>

\* the sessions still to be exited after the innermost one was
PopSession(stack) == SubSeq(stack, 1, Len(stack) - 1)

IsException(e) == e \notin {"none", "return 0", "KeyboardInterrupt"}

\* a faulty variant of AfterEnter: the body of the with block starts as
\* soon as the first session is entered
AfterEnter_FirstOnly(n) == "list"

\* where main goes on when the n-th item of the with statement was entered:
\* to the next item, or after the last one into the body of the block
AfterEnter(n) == IF n = Len(AcquireOrder) THEN "list" ELSE "connect"

\* a faulty variant of LoopHandler: a KeyboardInterrupt is reported like any
\* other exception and the loop prompts again
LoopHandler_ContinueOnInterrupt(exception) == "prompt"

\* a faulty variant of LoopHandler: every exception ends the loop
LoopHandler_BreakOnError(exception) == "after_loop"

\* the except clauses of the loop of interactive_mode, which cover the whole
\* loop body: except KeyboardInterrupt: break; except Exception: continue
LoopHandler(exception) == IF exception = "KeyboardInterrupt" THEN "after_loop" ELSE "prompt"

\* a faulty variant of ExitStep: the sessions are exited in the order they
\* were entered, outermost first
ExitStep_OutermostFirst(stack) == [stop |-> Head(stack), rest |-> Tail(stack)]

\* one step of leaving a multi-item with statement: the __exit__ of the
\* innermost item still entered runs, the others stay entered
ExitStep(stack) == [stop |-> stack[Len(stack)], rest |-> PopSession(stack)]

VARIABLES
    pc,             \* where main is
    args,           \* the parsed command line: query, local
    outputs,        \* the path "outputs": "absent", "dir" or "file"
    files,          \* the files of the directory outputs
    now,            \* int(time.time())
    server_tools,   \* the tool names each MCP server advertises
    model_instance, \* "None" or "OllamaModel"
    sess,           \* each MCP client session: NotStarted, Active, Closed
    entered,        \* the sessions of the with statement, innermost last
    closed,         \* the sessions exited so far, in the order of exit
    tools,          \* documentation_tools, terraform_tools, cdk_tools,
                    \* pricing_tools
    loaded,         \* the providers whose list_tools returned
    list_calls,     \* how often list_tools was called on each manager
    round_trips,    \* how often each server was asked for its tools
    all_tools,      \* all_tools
    consultant,     \* the AWSConsultant, once constructed
    raw_input,      \* what input() did last: the line it returned, or
                    \* the exception it raised
    user_input,     \* user_input of interactive_mode, query of main
    response,       \* response
    history,        \* conversation.history
    consult_calls,  \* the requests consult was called with
    agent_calls,    \* the questions the backend agent was invoked with
    last_consult,   \* the last consult call: its backend outcome and result
    save,           \* the last save_conversation call and what it returned
    pending,        \* what is leaving the with block: "none", "return 0",
                    \* or the exception being raised
    result          \* how main ended: "running", "return 0", "return 1",
                    \* or "KeyboardInterrupt" when that leaves main

vars ==
    <<pc, args, outputs, files, now, server_tools, model_instance, sess,
      entered, closed, tools, loaded, list_calls, round_trips, all_tools,
      consultant, raw_input,
      user_input, response, history, consult_calls, agent_calls,
      last_consult, save, pending, result>>

fsVars == <<outputs, files, now>>

connectVars == <<sess, entered, closed>>

toolVars == <<tools, loaded, list_calls, round_trips, all_tools>>

\* one call manager.list_tools() that returns, on the manager of provider p
ListToolsCall(p) ==
    LET r == list_tools(p, [populated |-> p \in loaded, tools |-> tools[p]], server_tools[p])
    IN  /\ tools' = [tools EXCEPT ![p] = r.value]
        /\ loaded' = loaded \cup {p}
        /\ list_calls' = [list_calls EXCEPT ![p] = @ + 1]
        /\ round_trips' = [round_trips EXCEPT ![p] = @ + r.round_trips]

loopVars == <<raw_input, user_input, response>>

callVars == <<consult_calls, agent_calls, last_consult>>

NoInput == [event |-> "none", line |-> <<>>]

NoConsult ==
    [request |-> <<>>, outcome |-> [type |-> "none", text |-> <<>>],
     raises |-> "none", msg |-> "", value |-> <<>>, invoked |-> FALSE]

NoSave ==
    [called |-> FALSE, size |-> 0, raises |-> "none", ret |-> NoPath,
     warned |-> FALSE, io |-> [fault |-> "none", k |-> 0]]

\* the state main starts in
StartOfMain(queries, toolsets) ==
    /\ pc = "start"
    /\ args \in [query : queries, local : BOOLEAN]
    /\ outputs \in {"absent", "dir", "file"}
    /\ files = {}
    /\ now = 0
    /\ server_tools \in toolsets
    /\ model_instance = "None"
    /\ sess = [p \in Providers |-> "NotStarted"]
    /\ entered = <<>>
    /\ closed = <<>>
    /\ tools = [p \in Providers |-> <<>>]
    /\ loaded = {}
    /\ list_calls = [p \in Providers |-> 0]
    /\ round_trips = [p \in Providers |-> 0]
    /\ all_tools = <<>>
    /\ consultant = NoConsultant
    /\ raw_input = NoInput
    /\ user_input = <<>>
    /\ response = <<>>
    /\ history = <<>>
    /\ consult_calls = <<>>
    /\ agent_calls = <<>>
    /\ last_consult = NoConsult
    /\ save = NoSave
    /\ pending = "none"
    /\ result = "running"

\* every server advertises nothing, or every server advertises "search"
FewToolsets ==
    {[p \in Providers |-> <<>>], [p \in Providers |-> <<"search">>]}

AllToolsets == [Providers -> SeqsUpTo(ToolNames, MaxTools)]

Init == StartOfMain(QueryArgs, FewToolsets)

\* ---------------------------------------------------- backend selection
\* a faulty variant of AfterOllamaFailure: the run goes on with the remote
\* backend
AfterOllamaFailure_FallBack == [pc |-> "connect", result |-> "running"]

\* except Exception as e: ... return 1, when OllamaModel(...) raised
AfterOllamaFailure == [pc |-> "done", result |-> "return 1"]

\* use_local is false: model_instance stays None
UseBedrock ==
    /\ pc = "start"
    /\ ~args.local
    /\ pc' = "connect"
    /\ UNCHANGED <<args, fsVars, server_tools, model_instance, connectVars,
                   toolVars, consultant, loopVars, history, callVars, save,
                   pending, result>>

\* use_local is true and OllamaModel(...) returns
InitOllamaModel ==
    /\ pc = "start"
    /\ args.local
    /\ model_instance' = "OllamaModel"
    /\ pc' = "connect"
    /\ UNCHANGED <<args, fsVars, server_tools, connectVars, toolVars,
                   consultant, loopVars, history, callVars, save, pending,
                   result>>

\* use_local is true and OllamaModel(...) raises
InitOllamaModelFails ==
    /\ pc = "start"
    /\ args.local
    /\ pc' = AfterOllamaFailure.pc
    /\ result' = AfterOllamaFailure.result
    /\ UNCHANGED <<args, fsVars, server_tools, model_instance, connectVars,
                   toolVars, consultant, loopVars, history, callVars, save,
                   pending>>

\* ------------------------------------------------- the with statement
\* MCPClientManager(name, ...).__enter__() returns for the next provider
EnterClient ==
    /\ pc = "connect"
    /\ LET p == AcquireOrder[Len(entered) + 1]
       IN  /\ sess' = [sess EXCEPT ![p] = "Active"]
           /\ entered' = Append(entered, p)
           /\ pc' = AfterEnter(Len(entered) + 1)
    /\ UNCHANGED <<args, fsVars, server_tools, model_instance, closed,
                   toolVars, consultant, loopVars, history, callVars, save,
                   pending, result>>

\* __enter__() raises for the next provider: the sessions entered before it
\* are exited, the failed one was never active
EnterClientFails ==
    /\ pc = "connect"
    /\ pending' = "MCPClientInitializationError"
    /\ pc' = "exit"
    /\ UNCHANGED <<args, fsVars, server_tools, model_instance, connectVars,
                   toolVars, consultant, loopVars, history, callVars, save,
                   result>>

\* x_tools = x_mcp.list_tools() returns for the next provider
ListTools ==
    /\ pc = "list"
    /\ LET p == AcquireOrder[Cardinality(loaded) + 1]
       IN  /\ ListToolsCall(p)
           /\ pc' = IF Cardinality(loaded) + 1 = Len(AcquireOrder)
                    THEN "combine" ELSE "list"
    /\ UNCHANGED <<args, fsVars, server_tools, model_instance, connectVars,
                   all_tools, consultant, loopVars, history, callVars, save,
                   pending, result>>

\* list_tools() raises for the next provider
ListToolsFails ==
    /\ pc = "list"
    /\ pending' = "MCPClientError"
    /\ pc' = "exit"
    /\ UNCHANGED <<args, fsVars, server_tools, model_instance, connectVars,
                   toolVars, consultant, loopVars, history, callVars, save,
                   result>>

\* all_tools = ... and the connection report
Combine ==
    /\ pc = "combine"
    /\ all_tools' = CombineTools(tools["documentation"], tools["terraform"],
                                 tools["cdk"], tools["pricing"])
    /\ pc' = "construct"
    /\ UNCHANGED <<args, fsVars, server_tools, model_instance, connectVars,
                   tools, loaded, list_calls, round_trips, consultant,
                   loopVars, history, callVars, save, pending, result>>

\* consultant = AWSConsultant(all_tools, model=model_instance) returns
CreateConsultant ==
    /\ pc = "construct"
    /\ IF IsBlank(SystemPrompt)
       THEN /\ pending' = "ValueError"
            /\ pc' = "exit"
            /\ UNCHANGED consultant
       ELSE /\ consultant' = NewConsultant(all_tools, model_instance)
            /\ pc' = IF args.query # <<>> THEN "single" ELSE "prompt"
            /\ UNCHANGED pending
    /\ UNCHANGED <<args, fsVars, server_tools, model_instance, connectVars,
                   toolVars, loopVars, history, callVars, save, result>>

\* Agent(**agent_config) raises inside AWSConsultant(...)
CreateConsultantFails ==
    /\ pc = "construct"
    /\ ~IsBlank(SystemPrompt)
    /\ pending' = "AgentInitError"
    /\ pc' = "exit"
    /\ UNCHANGED <<args, fsVars, server_tools, model_instance, connectVars,
                   toolVars, consultant, loopVars, history, callVars, save,
                   result>>

\* one __exit__ of the with statement: the innermost session still open is
\* stopped; MCPClient.__exit__ returns nothing, so the exception or return
\* that is leaving the block goes on
ExitClient ==
    /\ pc = "exit"
    /\ entered # <<>>
    /\ LET p == ExitStep(entered).stop
       IN  /\ sess' = [sess EXCEPT ![p] = "Closed"]
           /\ closed' = Append(closed, p)
    /\ entered' = ExitStep(entered).rest
    /\ UNCHANGED <<pc, args, fsVars, server_tools, model_instance, toolVars,
                   consultant, loopVars, history, callVars, save, pending,
                   result>>

\* the with statement is left: return 0 returns, an Exception goes to the
\* except clause of main, a KeyboardInterrupt leaves main
LeaveWith ==
    /\ pc = "exit"
    /\ entered = <<>>
    /\ IF pending = "return 0"
       THEN pc' = "done" /\ result' = "return 0"
       ELSE IF IsException(pending)
       THEN pc' = "except" /\ UNCHANGED result
       ELSE pc' = "done" /\ result' = "KeyboardInterrupt"
    /\ UNCHANGED <<args, fsVars, server_tools, model_instance, connectVars,
                   toolVars, consultant, loopVars, history, callVars, save,
                   pending>>

\* except Exception as e: the troubleshooting text, return 1
HandleError ==
    /\ pc = "except"
    /\ pc' = "done"
    /\ result' = "return 1"
    /\ UNCHANGED <<args, fsVars, server_tools, model_instance, connectVars,
                   toolVars, consultant, loopVars, history, callVars, save,
                   pending>>

\* ------------------------------------------------------ the consult call
\* the bookkeeping of one call consultant.consult(request) whose backend
\* call has outcome `outcome`
Called(request, outcome) ==
    LET r == Consult(request, outcome)
    IN  /\ consult_calls' = Append(consult_calls, request)
        /\ agent_calls' = IF r.invoked THEN Append(agent_calls, request)
                          ELSE agent_calls
        /\ last_consult' =
               [request |-> request, outcome |-> outcome,
                raises |-> r.raises, msg |-> r.msg, value |-> r.value,
                invoked |-> r.invoked]

\* the bookkeeping of one call conversation.save_conversation()
Saved(hist, io) ==
    LET r == SaveConversation(hist, outputs, files, io, now)
    IN  /\ outputs' = r.outdir
        /\ files' = r.files
        /\ save' = [called |-> TRUE, size |-> Len(hist),
                    raises |-> r.raises, ret |-> r.ret,
                    warned |-> r.warned, io |-> io]
        /\ pending' = IF r.raises = "none" THEN "return 0" ELSE r.raises

\* ----------------------------------------------------- interactive_mode
\* input("You: ") returns `line`: an exit command ends the loop, an empty
\* line prompts again, any other line goes to the consultant
ReadInput(line) ==
    /\ pc = "prompt"
    /\ raw_input' = [event |-> "line", line |-> line]
    /\ user_input' = Strip(line)
    /\ IF IsExitCommand(Strip(line))
       THEN pc' = "after_loop"
       ELSE IF Strip(line) = <<>>
       THEN pc' = "prompt"
       ELSE Len(history) < MaxExchanges /\ pc' = "consult"
    /\ UNCHANGED <<args, fsVars, server_tools, model_instance, connectVars,
                   toolVars, consultant, response, history, callVars, save,
                   pending, result>>

\* Ctrl-C while input() waits: except KeyboardInterrupt, break
InputInterrupted ==
    /\ pc = "prompt"
    /\ raw_input' = [event |-> "KeyboardInterrupt", line |-> <<>>]
    /\ pc' = LoopHandler("KeyboardInterrupt")
    /\ UNCHANGED <<args, fsVars, server_tools, model_instance, connectVars,
                   toolVars, consultant, user_input, response, history,
                   callVars, save, pending, result>>

\* input() raises an Exception (EOFError at the end of the input): except
\* Exception, continue
InputFails ==
    /\ pc = "prompt"
    /\ raw_input' = [event |-> "EOFError", line |-> <<>>]
    /\ pc' = LoopHandler("EOFError")
    /\ UNCHANGED <<args, fsVars, server_tools, model_instance, connectVars,
                   toolVars, consultant, user_input, response, history,
                   callVars, save, pending, result>>

\* response = consultant.consult(user_input) and the rest of the loop body:
\* the exchange is appended when consult returns; a KeyboardInterrupt
\* during the call ends the loop, an Exception out of it prompts again
ConsultInteractive(outcome) ==
    /\ pc = "consult"
    /\ Called(user_input, outcome)
    /\ LET r == Consult(user_input, outcome)
       IN  IF r.raises = "none"
           THEN /\ response' = r.value
                /\ history' = AddExchange(history, user_input, r.value, now)
                /\ pc' = "prompt"
           ELSE /\ pc' = LoopHandler(r.raises)
                /\ UNCHANGED <<response, history>>
    /\ UNCHANGED <<args, fsVars, server_tools, model_instance, connectVars,
                   toolVars, consultant, raw_input, user_input, save,
                   pending, result>>

\* after the loop: if conversation.history: save_conversation(); return 0
SaveInteractive(io) ==
    /\ pc = "after_loop"
    /\ IF history # <<>>
       THEN Saved(history, io)
       ELSE pending' = "return 0" /\ UNCHANGED <<outputs, files, save>>
    /\ pc' = "exit"
    /\ UNCHANGED <<args, now, server_tools, model_instance, connectVars,
                   toolVars, consultant, loopVars, history, callVars,
                   result>>

\* ---------------------------------------------------- single query mode
\* query = " ".join(args.query); response = single_query_mode(...): an
\* exception out of consult leaves the with block
SingleQuery(outcome) ==
    /\ pc = "single"
    /\ LET query == Join(<<" ">>, args.query)
           r == Consult(query, outcome)
       IN  /\ user_input' = query
           /\ Called(query, outcome)
           /\ IF r.raises = "none"
              THEN /\ response' = r.value
                   /\ pc' = "single_save"
                   /\ UNCHANGED pending
              ELSE /\ pending' = r.raises
                   /\ pc' = "exit"
                   /\ UNCHANGED response
    /\ UNCHANGED <<args, fsVars, server_tools, model_instance, connectVars,
                   toolVars, consultant, raw_input, history, save, result>>

\* conversation = ConversationManager(); add_exchange(query, response);
\* save_conversation(); return 0
SaveSingle(io) ==
    /\ pc = "single_save"
    /\ history' = AddExchange(<<>>, user_input, response, now)
    /\ Saved(AddExchange(<<>>, user_input, response, now), io)
    /\ pc' = "exit"
    /\ UNCHANGED <<args, now, server_tools, model_instance, connectVars,
                   toolVars, consultant, loopVars, callVars, result>>

Next ==
    \/ UseBedrock
    \/ InitOllamaModel
    \/ InitOllamaModelFails
    \/ EnterClient
    \/ EnterClientFails
    \/ ListTools
    \/ ListToolsFails
    \/ Combine
    \/ CreateConsultant
    \/ CreateConsultantFails
    \/ \E line \in InputLines : ReadInput(line)
    \/ InputInterrupted
    \/ InputFails
    \/ \E outcome \in AgentOutcomes : ConsultInteractive(outcome)
    \/ \E io \in IOFaults : SaveInteractive(io)
    \/ \E outcome \in AgentOutcomes : SingleQuery(outcome)
    \/ \E io \in IOFaults : SaveSingle(io)
    \/ ExitClient
    \/ LeaveWith
    \/ HandleError

\* one run of main
Spec == Init /\ [][Next]_vars

\* ------------------------------------- tool aggregation, every tool list
\* main in single query mode on the remote backend, with every combination
\* of advertised tool lists, up to the point the consultant is constructed
InitAggregation == StartOfMain({<<<<"a">>>>}, AllToolsets) /\ ~args.local

NextAggregation ==
    \/ UseBedrock
    \/ EnterClient
    \/ EnterClientFails
    \/ ListTools
    \/ ListToolsFails
    \/ Combine
    \/ CreateConsultant
    \/ CreateConsultantFails
    \/ ExitClient
    \/ LeaveWith
    \/ HandleError

SpecAggregation == InitAggregation /\ [][NextAggregation]_vars

\* --------------------------------------- ConversationManager on its own
\* a ConversationManager used by any caller: add_exchange and
\* save_conversation in any order, while the clock advances
UserTexts == {<<"a">>, <<"a", " ", "b">>}

AssistantTexts == {<<"o","k">>}

InitRecorder ==
    /\ pc = "recorder"
    /\ args = [query |-> <<>>, local |-> FALSE]
    /\ outputs \in {"absent", "dir", "file"}
    /\ files = {}
    /\ now = 0
    /\ server_tools = [p \in Providers |-> <<>>]
    /\ model_instance = "None"
    /\ sess = [p \in Providers |-> "NotStarted"]
    /\ entered = <<>>
    /\ closed = <<>>
    /\ tools = [p \in Providers |-> <<>>]
    /\ loaded = {}
    /\ list_calls = [p \in Providers |-> 0]
    /\ round_trips = [p \in Providers |-> 0]
    /\ all_tools = <<>>
    /\ consultant = NoConsultant
    /\ raw_input = NoInput
    /\ user_input = <<>>
    /\ response = <<>>
    /\ history = <<>>
    /\ consult_calls = <<>>
    /\ agent_calls = <<>>
    /\ last_consult = NoConsult
    /\ save = NoSave
    /\ pending = "none"
    /\ result = "running"

\* conversation.add_exchange(user, assistant)
RecorderAdd(user, assistant) ==
    /\ pc = "recorder"
    /\ Len(history) < MaxExchanges
    /\ history' = AddExchange(history, user, assistant, now)
    /\ UNCHANGED <<pc, args, fsVars, server_tools, model_instance,
                   connectVars, toolVars, consultant, loopVars, callVars,
                   save, pending, result>>

\* conversation.save_conversation()
RecorderSave(io) ==
    /\ pc = "recorder"
    /\ Saved(history, io)
    /\ UNCHANGED <<pc, args, now, server_tools, model_instance, connectVars,
                   toolVars, consultant, loopVars, history, callVars,
                   result>>

\* a second passes
Tick ==
    /\ pc = "recorder"
    /\ now < MaxTime
    /\ now' = now + 1
    /\ UNCHANGED <<pc, args, outputs, files, server_tools, model_instance,
                   connectVars, toolVars, consultant, loopVars, history,
                   callVars, save, pending, result>>

NextRecorder ==
    \/ \E user \in UserTexts, assistant \in AssistantTexts :
           RecorderAdd(user, assistant)
    \/ \E io \in IOFaults : RecorderSave(io)
    \/ Tick

SpecRecorder == InitRecorder /\ [][NextRecorder]_vars

\* ------------------------------------------- one MCPClientManager, alone
\* one MCPClientManager used by a caller that enters it, calls list_tools
\* any number of times and exits it, while the server is free to change
\* the tools it advertises (MCP servers may, and say so with a
\* tools/list_changed notification)
InitSession ==
    /\ pc = "session"
    /\ args = [query |-> <<>>, local |-> FALSE]
    /\ outputs = "absent"
    /\ files = {}
    /\ now = 0
    /\ server_tools \in {[p \in Providers |-> <<>>], [p \in Providers |-> <<"search">>]}
    /\ model_instance = "None"
    /\ sess = [p \in Providers |-> "NotStarted"]
    /\ entered = <<>>
    /\ closed = <<>>
    /\ tools = [p \in Providers |-> <<>>]
    /\ loaded = {}
    /\ list_calls = [p \in Providers |-> 0]
    /\ round_trips = [p \in Providers |-> 0]
    /\ all_tools = <<>>
    /\ consultant = NoConsultant
    /\ raw_input = NoInput
    /\ user_input = <<>>
    /\ response = <<>>
    /\ history = <<>>
    /\ consult_calls = <<>>
    /\ agent_calls = <<>>
    /\ last_consult = NoConsult
    /\ save = NoSave
    /\ pending = "none"
    /\ result = "running"

\* with MCPClientManager(p, servers[p]) as manager: __enter__ returns
SessionEnter(p) ==
    /\ pc = "session"
    /\ \A q \in Providers : sess[q] = "NotStarted"
    /\ sess' = [sess EXCEPT ![p] = "Active"]
    /\ entered' = Append(entered, p)
    /\ UNCHANGED <<pc, args, fsVars, server_tools, model_instance, closed,
                   toolVars, consultant, loopVars, history, callVars, save,
                   pending, result>>

\* manager.list_tools() inside the with block
SessionListTools(p) ==
    /\ pc = "session"
    /\ sess[p] = "Active"
    /\ list_calls[p] < MaxCalls
    /\ ListToolsCall(p)
    /\ UNCHANGED <<pc, args, fsVars, server_tools, model_instance,
                   connectVars, all_tools, consultant, loopVars, history,
                   callVars, save, pending, result>>

\* the server of an active session advertises other tools from now on
ServerChanges(p, names) ==
    /\ pc = "session"
    /\ sess[p] = "Active"
    /\ names # server_tools[p]
    /\ server_tools' = [server_tools EXCEPT ![p] = names]
    /\ UNCHANGED <<pc, args, fsVars, model_instance, connectVars, toolVars,
                   consultant, loopVars, history, callVars, save, pending,
                   result>>

\* the with block is left: __exit__
SessionExit ==
    /\ pc = "session"
    /\ entered # <<>>
    /\ LET p == ExitStep(entered).stop
       IN  /\ sess' = [sess EXCEPT ![p] = "Closed"]
           /\ closed' = Append(closed, p)
    /\ entered' = ExitStep(entered).rest
    /\ UNCHANGED <<pc, args, fsVars, server_tools, model_instance, toolVars,
                   consultant, loopVars, history, callVars, save, pending,
                   result>>

NextSession ==
    \/ \E p \in Providers : SessionEnter(p)
    \/ \E p \in Providers : SessionListTools(p)
    \/ \E p \in Providers, names \in SeqsUpTo(ToolNames, MaxTools) :
           ServerChanges(p, names)
    \/ SessionExit

SpecSession == InitSession /\ [][NextSession]_vars

\* ================================================================ claims
\* stated on their own terms, not with the operators of the model
NonBlank(s) == \E i \in 1..Len(s) : s[i] \notin Whitespace

HasPrefix(s, prefix) ==
    Len(s) >= Len(prefix) /\ SubSeq(s, 1, Len(prefix)) = prefix

NoneActive == \A p \in Providers : sess[p] # "Active"

\* C1: for every request that is not empty and not whitespace-only and
\* every backend outcome that is an answer or an exception of the backend,
\* consult returns and does not raise: it returns the text of the answer,
\* or the error marker 'Error processing request: ' followed by the text of
\* the exception.
Claim1_ConsultNeverRaises ==
    (/\ consult_calls # <<>>
     /\ NonBlank(last_consult.request)
     /\ last_consult.outcome.type \in {"AgentResult", "Exception"})
    => /\ last_consult.raises = "none"
       /\ last_consult.invoked
       /\ last_consult.outcome.type = "AgentResult"
              => last_consult.value = last_consult.outcome.text
       /\ last_consult.outcome.type = "Exception"
              => /\ HasPrefix(last_consult.value, ErrorMarker)
                 /\ last_consult.value
                        = ErrorMarker \o last_consult.outcome.text

\* C1 happens: the backend raised on a real request in the interactive
\* loop, consult returned the marked string, it was recorded and the loop
\* prompts again
Witness1_BackendErrorReturned ==
    /\ pc = "prompt"
    /\ last_consult.outcome.type = "Exception"
    /\ NonBlank(last_consult.request)
    /\ HasPrefix(last_consult.value, ErrorMarker)
    /\ history # <<>>
    /\ history[Len(history)].assistant = last_consult.value

\* C2: for every request that is empty or whitespace-only, consult raises
\* ValueError 'question cannot be empty' and the backend agent is not
\* invoked: the backend was invoked exactly for the requests that are not
\* blank.
Claim2_BlankRequestRejected ==
    /\ agent_calls = SelectSeq(consult_calls, NonBlank)
    /\ (consult_calls # <<>> /\ ~NonBlank(last_consult.request))
       => /\ last_consult.raises = "ValueError"
          /\ last_consult.msg = "question cannot be empty"
          /\ ~last_consult.invoked

\* C2 happens: consult was called with a whitespace-only request (the two
\* empty query words joined by a space)
Witness2_BlankRequest ==
    /\ consult_calls = << <<" ">> >>
    /\ args.query = << <<>>, <<>> >>
    /\ last_consult.raises = "ValueError"
    /\ agent_calls = <<>>

\* C3: if a provider fails to start or to list its tools, then when the
\* failure reaches the except clause of main, and when main has returned,
\* no session is active and every session that was started is closed; and
\* a consultant is only ever constructed from the tool lists of all four
\* providers.
Claim3_NoLeakedSession ==
    /\ (/\ pending \in {"MCPClientInitializationError", "MCPClientError"}
        /\ pc \in {"except", "done"})
       => /\ NoneActive
          /\ entered = <<>>
          /\ \A p \in Providers :
                 sess[p] = "Closed" <=> \E i \in 1..Len(closed) : closed[i] = p
          /\ ~consultant.made
    /\ pc = "done" => NoneActive
    /\ consultant.made
       => /\ loaded = Providers
          /\ consultant.tools
                 = tools["documentation"] \o tools["terraform"]
                       \o tools["cdk"] \o tools["pricing"]

\* C3 happens: cdk failed to start after documentation and terraform had
\* started, and main has returned
Witness3_CdkFailedToStart ==
    /\ pc = "done"
    /\ pending = "MCPClientInitializationError"
    /\ sess["documentation"] = "Closed"
    /\ sess["terraform"] = "Closed"
    /\ sess["cdk"] = "NotStarted"
    /\ result = "return 1"

\* the lists of `order`, one after the other
Blocks(order) == Concat([i \in 1..Len(order) |-> tools[order[i]]])

\* each provider's list is the list its server advertises, in its order
OwnLists ==
    \A p \in Providers :
        /\ Len(tools[p]) = Len(server_tools[p])
        /\ \A i \in 1..Len(tools[p]) :
               tools[p][i] = [server |-> p, name |-> server_tools[p][i]]

IsTrimOf(t, s) ==
    \E i \in 0..Len(s), j \in 0..Len(s) :
        /\ i + j <= Len(s)
        /\ t = SubSeq(s, i + 1, Len(s) - j)
        /\ \A k \in 1..i : s[k] \in Whitespace
        /\ \A k \in (Len(s) - j + 1)..Len(s) : s[k] \in Whitespace
        /\ t # <<>> => (t[1] \notin Whitespace /\ t[Len(t)] \notin Whitespace)

\* character c is the lower-case letter l, in either case
SameLetter(c, l) ==
    c = l \/ \E i \in 1..Len(LowerCase) : l = LowerCase[i] /\ c = UpperCase[i]

\* t is one of exit, quit, bye, q, in any mix of cases
IsExitToken(t) ==
    \E token \in {<<"e","x","i","t">>, <<"q","u","i","t">>, <<"b","y","e">>,
                  <<"q">>} :
        /\ Len(t) = Len(token)
        /\ \A i \in 1..Len(token) : SameLetter(t[i], token[i])

\* C5: in the interactive loop, a line whose trimmed, lower-cased form is
\* exit, quit, bye or q ends the loop with no consult call and no append;
\* a line that is empty once trimmed prompts again with no consult call
\* and no append; any other line makes exactly one consult call, with the
\* trimmed line, and when that call returns a response exactly the exchange
\* (trimmed line, response) is appended.  (A consult call cut short by
\* Ctrl-C returns no response; that case is the subject of C12.)
Claim5_LoopDispatch ==
    [][/\ (pc = "prompt" /\ raw_input'.event = "line")
          => /\ IsTrimOf(user_input', raw_input'.line)
             /\ pc' = IF IsExitToken(user_input') THEN "after_loop"
                      ELSE IF user_input' = <<>> THEN "prompt"
                      ELSE "consult"
       /\ pc \in {"prompt", "after_loop"}
          => (consult_calls' = consult_calls /\ history' = history)
       /\ pc = "consult"
          => /\ raw_input.event = "line"
             /\ IsTrimOf(user_input, raw_input.line)
             /\ ~IsExitToken(user_input)
             /\ user_input # <<>>
             /\ consult_calls' = Append(consult_calls, user_input)
             /\ IF last_consult'.raises = "none"
                THEN /\ Len(history') = Len(history) + 1
                     /\ SubSeq(history', 1, Len(history)) = history
                     /\ history'[Len(history')].user = user_input
                     /\ history'[Len(history')].assistant
                            = last_consult'.value
                     /\ pc' = "prompt"
                ELSE history' = history
      ]_vars

\* C5 happens: the line " a b " was answered and the exchange with the
\* trimmed line recorded, after which the loop prompts again
Witness5_TrimmedLineRecorded ==
    /\ pc = "prompt"
    /\ raw_input = [event |-> "line", line |-> <<" ", "a", " ", "b", " ">>]
    /\ Len(history) = 1
    /\ history[1].user = <<"a", " ", "b">>
    /\ Len(consult_calls) = 1

RECURSIVE SumLens(_, _)
\* the total length of the first n words
SumLens(words, n) ==
    IF n = 0 THEN 0 ELSE SumLens(words, n - 1) + Len(words[n])

\* q is the words in order with exactly one space between neighbours
IsJoinOf(q, words) ==
    LET n == Len(words)
        at(i) == SumLens(words, i - 1) + (i - 1)
    IN  /\ n >= 1
        /\ Len(q) = SumLens(words, n) + (n - 1)
        /\ \A i \in 1..n :
               /\ \A k \in 1..Len(words[i]) : q[at(i) + k] = words[i][k]
               /\ i < n => q[at(i) + Len(words[i]) + 1] = " "

\* consult was called once, with the query words joined by single spaces
OneCallWithJoinedQuery ==
    /\ Len(consult_calls) = 1
    /\ IsJoinOf(consult_calls[1], args.query)

\* one exchange (request, response) was recorded and given to
\* save_conversation
OneExchangeRecorded ==
    /\ Len(history) = 1
    /\ history[1].user = consult_calls[1]
    /\ history[1].assistant = last_consult.value
    /\ save.called
    /\ save.size = 1

\* a single query run has ended after the consultant was constructed
SingleQueryDone == pc = "done" /\ args.query # <<>> /\ consultant.made

\* C6, as stated: in single query mode, for one or more query words,
\* consult is called exactly once with the words joined by single spaces
\* and exactly one exchange (request, response) is recorded and flushed,
\* also when the backend fails.  (Runs whose consult call is cut short by
\* Ctrl-C are left aside.)
Claim6_AnyQueryWords ==
    (SingleQueryDone /\ last_consult.outcome.type # "KeyboardInterrupt")
    => (OneCallWithJoinedQuery /\ OneExchangeRecorded)

\* C6, amended: in single query mode consult is called exactly once with
\* the words joined by single spaces.  When the joined request is not
\* whitespace-only and the call returns, exactly one exchange (request,
\* response) is recorded and save_conversation is called once on that
\* one-exchange history, writing a transcript of one block when the file
\* system does not fail; this holds also when the backend fails.  When the
\* joined request is whitespace-only, or the call is cut short, no exchange
\* is recorded and nothing is flushed.
Claim6_NonBlankQuery ==
    SingleQueryDone
    => /\ OneCallWithJoinedQuery
       /\ IF /\ NonBlank(consult_calls[1])
             /\ last_consult.outcome.type # "KeyboardInterrupt"
          THEN /\ OneExchangeRecorded
               /\ (save.io.fault = "none" /\ outputs = "dir")
                  => files =
                         {[stamp |-> now,
                           content |->
                               <<[kind |-> "header", num |-> 0,
                                  user |-> <<>>, assistant |-> <<>>],
                                 [kind |-> "exchange", num |-> 1,
                                  user |-> consult_calls[1],
                                  assistant |-> last_consult.value],
                                 [kind |-> "footer", num |-> 0,
                                  user |-> <<>>, assistant |-> <<>>]>>]}
          ELSE history = <<>> /\ ~save.called /\ files = {}

\* C6 happens: two query words, the backend failed, and the exchange with
\* the error string was recorded and written
Witness6_TwoWordsBackendFailed ==
    /\ SingleQueryDone
    /\ args.query = << <<"a">>, <<"a">> >>
    /\ consult_calls = << <<"a", " ", "a">> >>
    /\ last_consult.outcome.type = "Exception"
    /\ Len(history) = 1
    /\ HasPrefix(history[1].assistant, ErrorMarker)
    /\ ~save.ret.none
    /\ result = "return 0"

\* the parts of the transcript of history h: the header, block i for
\* exchange i with its literal texts, the footer
IsTranscriptOf(content, h) ==
    /\ Len(content) = Len(h) + 2
    /\ content[1].kind = "header"
    /\ content[Len(content)].kind = "footer"
    /\ \A i \in 1..Len(h) :
           content[i + 1] = [kind |-> "exchange", num |-> i,
                             user |-> h[i].user,
                             assistant |-> h[i].assistant]

\* C7: save_conversation on an empty history returns None and creates no
\* file and no directory; after n >= 1 add_exchange calls, when the file
\* system does not fail (failures are the subject of C8), it writes exactly
\* one file, which holds exactly n exchange blocks numbered 1..n in append
\* order with the literal user and assistant texts, and returns the path
\* of that file.  (A step that leaves history and clock alone is a
\* save_conversation call.)
Claim7_SaveConversation ==
    [][(history' = history /\ now' = now)
       => IF history = <<>>
          THEN /\ save'.ret.none
               /\ save'.raises = "none"
               /\ files' = files
               /\ outputs' = outputs
          ELSE (save'.io.fault = "none" /\ outputs # "file")
               => /\ save'.raises = "none"
                  /\ ~save'.ret.none
                  /\ outputs' = "dir"
                  /\ \E f \in files' :
                         /\ f.stamp = save'.ret.stamp
                         /\ IsTranscriptOf(f.content, history)
                         /\ files' \ {f} = {g \in files : g.stamp # f.stamp}
      ]_vars

\* C7 happens: a history of two exchanges was saved and the file holds
\* the two blocks
Witness7_TwoBlocksWritten ==
    /\ pc = "recorder"
    /\ Len(history) = 2
    /\ history[1].user # history[2].user
    /\ save.called
    /\ save.size = 2
    /\ ~save.ret.none
    /\ \E f \in files : f.stamp = save.ret.stamp /\ Len(f.content) = 4

\* an I/O operation of the last save_conversation call failed: the path
\* outputs is a regular file or could not be created, or the file could not
\* be opened or written
FlushFailed ==
    /\ save.called
    /\ save.size > 0
    /\ \/ outputs = "file"
       \/ (outputs = "absent" /\ save.io.fault = "mkdir")
       \/ save.io.fault \in {"open", "write"}

\* C8: on any I/O failure while flushing, the failure to create the output
\* directory included, save_conversation catches the error, prints the
\* warning and returns None, and the run still returns 0.
Claim8_FlushFailureNotFatal ==
    FlushFailed
    => /\ save.raises = "none"
       /\ save.warned
       /\ save.ret.none
       /\ pc = "done" => result = "return 0"

\* C9: if a provider fails to start or to list its tools, or the local
\* model cannot be constructed, main returns 1 and there was no consult
\* call, no exchange and no transcript file; if setup succeeds and the
\* interaction driver completes (the loop ends, or the single consult call
\* returns), main returns 0.
Claim9_ExitCodes ==
    pc = "done"
    => /\ (\/ pending \in {"MCPClientInitializationError", "MCPClientError"}
           \/ (args.local /\ model_instance = "None"))
          => /\ result = "return 1"
             /\ consult_calls = <<>>
             /\ history = <<>>
             /\ files = {}
       /\ (consultant.made /\ pending \notin {"ValueError", "KeyboardInterrupt"})
          => result = "return 0"

\* C10: without --local the consultant is constructed with no model (the
\* remote backend) and with --local only with the Ollama model; if the
\* Ollama model cannot be constructed the run ends with exit code 1, no
\* provider session was started and no consultant was constructed.
Claim10_BackendNeverSwitched ==
    /\ consultant.made
       => /\ consultant.model = (IF args.local THEN "OllamaModel" ELSE "None")
          /\ ("model" \in consultant.agent_config) <=> args.local
    /\ ~args.local => model_instance = "None"
    /\ (args.local /\ model_instance = "None" /\ pc # "start")
       => /\ pc = "done"
          /\ result = "return 1"
          /\ \A p \in Providers : sess[p] = "NotStarted"
          /\ ~consultant.made

\* C10 happens: --local was given, the Ollama model could not be
\* constructed, and the run has ended
Witness10_OllamaFailed ==
    /\ args.local
    /\ model_instance = "None"
    /\ pc = "done"
    /\ result = "return 1"

\* ------------------------------------------------------------------- C11
\* the order the sessions are stopped in when all four were acquired
ReleaseOrder == <<"pricing", "cdk", "terraform", "documentation">>

\* every provider session was started in this run
AllAcquired == \A p \in Providers : sess[p] # "NotStarted"

\* C11: once all four provider sessions were acquired, leaving the with
\* block, by return 0 or by an exception raised inside it (a failed
\* list_tools, a failed consultant construction, an exception out of
\* consult or of the flush), stops them in the reverse of the order of
\* acquisition: at every moment the sessions stopped so far are pricing,
\* cdk, terraform, documentation up to some point, the others are still
\* active, and when the block has been left all four are stopped.
\* __exit__ is taken to return, as MCPClient.__exit__ does when the
\* subprocess can be stopped.
Claim11_ReverseRelease ==
    AllAcquired =>
        /\ Len(closed) <= Len(ReleaseOrder)
        /\ closed = SubSeq(ReleaseOrder, 1, Len(closed))
        /\ \A p \in Providers :
               sess[p] = IF \E i \in 1..Len(closed) : closed[i] = p
                         THEN "Closed" ELSE "Active"
        /\ pc \in {"except", "done"} =>
               /\ closed = ReleaseOrder
               /\ \A p \in Providers : sess[p] = "Closed"

\* all four were acquired, list_tools failed inside the block, and main
\* returned 1 with the four sessions stopped
Witness11_ReleasedAfterEnumerationFailed ==
    /\ AllAcquired
    /\ pending = "MCPClientError"
    /\ result = "return 1"
    /\ Len(closed) = 4

\* ------------------------------------------------------------------- C12
\* Ctrl-C arrives while input() waits
InterruptAtInput ==
    /\ pc = "prompt"
    /\ raw_input' # raw_input
    /\ raw_input'.event = "KeyboardInterrupt"

\* Ctrl-C arrives while consultant.consult(user_input) runs
InterruptInConsult ==
    /\ pc = "consult"
    /\ consult_calls' # consult_calls
    /\ last_consult'.raises = "KeyboardInterrupt"

\* an interactive run whose loop was ended by Ctrl-C
Interrupted ==
    /\ args.query = <<>>
    /\ \/ raw_input.event = "KeyboardInterrupt"
       \/ last_consult.raises = "KeyboardInterrupt"

\* C12 as stated, for where the interrupt is caught: Ctrl-C at the prompt
\* ends the loop without a consult call and with the history kept, and the
\* loop is never ended from anywhere but the prompt, so that a consult call
\* in flight always runs to its end and the loop prompts again.
Claim12_CaughtOnlyAtInput ==
    [][/\ InterruptAtInput =>
              /\ pc' = "after_loop"
              /\ consult_calls' = consult_calls
              /\ history' = history
       /\ (pc # "after_loop" /\ pc' = "after_loop") => pc = "prompt"
       /\ pc = "consult" => pc' = "prompt"]_vars

\* C12, amended: the loop's except KeyboardInterrupt covers the whole loop
\* body.  Ctrl-C at the prompt ends the loop without a consult call and
\* with the history kept; Ctrl-C during a consult call in flight abandons
\* that call, records no exchange for it and ends the loop as well.  Either
\* way the history recorded so far goes to the flush exactly when it is not
\* empty, and main returns 0 when save_conversation returns and 1 when it
\* raises (the mkdir failure of C8, the only way it raises).
Claim12_InterruptEndsLoop ==
    /\ [][(InterruptAtInput =>
              /\ pc' = "after_loop"
              /\ consult_calls' = consult_calls
              /\ history' = history)
          /\ (InterruptInConsult =>
              /\ pc' = "after_loop"
              /\ history' = history
              /\ response' = response)
          /\ ((pc = "after_loop" /\ pc' # pc) =>
              /\ history' = history
              /\ IF history # <<>>
                 THEN save'.called /\ save'.size = Len(history)
                 ELSE ~save'.called)]_vars
    /\ []((Interrupted /\ pc = "done") =>
              /\ save.raises \in {"none", "OSError"}
              /\ (save.raises = "OSError") =>
                     (save.io.fault = "mkdir" \/ outputs = "file")
              /\ result = IF save.raises = "none"
                          THEN "return 0" ELSE "return 1")

\* one exchange was recorded, Ctrl-C arrived during the second consult
\* call, the one exchange was flushed and main returned 0
Witness12_InterruptedInFlight ==
    /\ args.query = <<>>
    /\ last_consult.raises = "KeyboardInterrupt"
    /\ Len(consult_calls) = 2
    /\ Len(history) = 1
    /\ save.called /\ save.size = 1
    /\ result = "return 0"

\* ------------------------------------------------------------------- C13
\* this step is a call of list_tools on the manager of p that returns
IsListToolsCall(p) == list_calls'[p] = list_calls[p] + 1

\* C13 as stated: once list_tools has returned on a session, a later call
\* on the same session returns the same list and does not ask the server
\* again.
Claim13_Memoized ==
    [][\A p \in Providers :
          (IsListToolsCall(p) /\ list_calls[p] >= 1) =>
              /\ tools'[p] = tools[p]
              /\ round_trips'[p] = round_trips[p]]_vars

\* C13, amended: list_tools is not memoized.  Every call on an active
\* session asks the server once more and returns the tools the server
\* advertises at that moment, in the server's order, so that a later list
\* differs from an earlier one whenever the server's tools changed in
\* between.
Claim13_EveryCallAsksServer ==
    [][\A p \in Providers :
          IsListToolsCall(p) =>
              /\ sess[p] = "Active"
              /\ round_trips'[p] = round_trips[p] + 1
              /\ round_trips'[p] = list_calls'[p]
              /\ Len(tools'[p]) = Len(server_tools[p])
              /\ \A i \in 1..Len(server_tools[p]) :
                     tools'[p][i] = [server |-> p,
                                     name |-> server_tools[p][i]]]_vars

\* list_tools was called twice on a session whose server changed its tools
\* (the servers never started still advertise what all did at the start):
\* the server was asked twice and the list held is the server's present one
Witness13_SecondCallNewList ==
    \E p \in Providers :
        /\ sess[p] = "Active"
        /\ \A q \in Providers \ {p} : server_tools[q] = <<>>
        /\ list_calls[p] = 2
        /\ round_trips[p] = 2
        /\ server_tools[p] = <<"search">>
        /\ tools[p] = <<[server |-> p, name |-> "search"]>>

\* ------------------------------------------------------------------- C14
\* all four provider sessions are active
AllActive == \A p \in Providers : sess[p] = "Active"

\* main is in the body of the with block, where list_tools, AWSConsultant,
\* consult and save_conversation are called
InWithBody ==
    pc \in {"list", "combine", "construct", "prompt", "consult",
            "after_loop", "single", "single_save"}

\* this step calls list_tools, constructs the consultant, calls consult or
\* flushes the transcript
UsesSessions ==
    \/ \E p \in Providers : IsListToolsCall(p)
    \/ consultant' # consultant
    \/ consult_calls' # consult_calls
    \/ save' # save
    \/ files' # files
    \/ outputs' # outputs

\* each session changes state only from NotStarted to Active or from Active
\* to Closed in this step
LifecycleStep ==
    \A p \in Providers :
        sess'[p] # sess[p] =>
            \/ sess[p] = "NotStarted" /\ sess'[p] = "Active"
            \/ sess[p] = "Active" /\ sess'[p] = "Closed"

\* C14: in every run of main each provider session only moves from
\* NotStarted to Active and from Active to Closed, and list_tools, the
\* construction of the consultant, consult and the flush of the transcript,
\* whether they return or raise, happen only while all four sessions are
\* active; list_tools is called at most once on each session.
Claim14_SessionLifecycle ==
    /\ [](InWithBody => AllActive)
    /\ [](\A p \in Providers : list_calls[p] <= 1)
    /\ [][LifecycleStep]_vars
    /\ [][UsesSessions => (InWithBody /\ AllActive /\ sess' = sess)]_vars

\* two exchanges were recorded and flushed with all four sessions active,
\* and the sessions were closed afterwards
Witness14_FlushedThenClosed ==
    /\ Len(history) = 2
    /\ save.called
    /\ save.ret # NoPath
    /\ \A p \in Providers : sess[p] = "Closed" /\ list_calls[p] = 1
    /\ result = "return 0"

\* ------------------------------------------------------------------- C15
\* main is in the loop of interactive_mode
InLoop == pc \in {"prompt", "consult"}

\* input() returns a line whose trimmed form is an exit token
ExitTokenRead ==
    /\ pc = "prompt"
    /\ raw_input'.event = "line"
    /\ IsTrimOf(user_input', raw_input'.line)
    /\ IsExitToken(user_input')

\* input() raises an Exception, such as EOFError at the end of the input
InputFailed ==
    /\ pc = "prompt"
    /\ raw_input' # raw_input
    /\ raw_input'.event \notin {"line", "KeyboardInterrupt"}

\* the ways the loop of interactive_mode is left in one step
LoopExitStep ==
    /\ (InLoop /\ ~InLoop') =>
           /\ pc' = "after_loop"
           /\ ExitTokenRead \/ InterruptAtInput \/ InterruptInConsult
    /\ (ExitTokenRead \/ InterruptAtInput \/ InterruptInConsult) =>
           pc' = "after_loop"

\* an Exception in an iteration is followed by the next prompt, with no
\* consult call and nothing appended
LoopErrorStep ==
    /\ InputFailed =>
           /\ pc' = "prompt"
           /\ history' = history
           /\ consult_calls' = consult_calls
    /\ (pc = "consult" /\ last_consult'.raises \notin {"none", "KeyboardInterrupt"}) =>
           /\ pc' = "prompt"
           /\ history' = history

\* C15: the loop of interactive_mode is left only by a step that reads an
\* exit token or is interrupted by Ctrl-C, and every such step leaves it;
\* an Exception raised in an iteration, the EOFError of input() included,
\* is followed by a new prompt with the history as it was.  So a run leaves
\* the loop exactly when an exit token or an interrupt occurs, and a run in
\* which neither occurs stays in the loop.
Claim15_LoopExitsOnlyOnTokenOrInterrupt ==
    /\ [][LoopExitStep]_vars
    /\ [][LoopErrorStep]_vars
    /\ [](pc = "after_loop" =>
              \/ raw_input.event = "KeyboardInterrupt"
              \/ last_consult.raises = "KeyboardInterrupt"
              \/ raw_input.event = "line" /\ IsExitToken(user_input))

\* one exchange was recorded, then input() raised EOFError, and the loop
\* prompts again with the exchange still recorded
Witness15_PromptAfterEndOfInput ==
    /\ pc = "prompt"
    /\ raw_input.event = "EOFError"
    /\ Len(history) = 1
    /\ Len(consult_calls) = 1
    /\ result = "running"

\* ------------------------------------------------------------------- C16
\* main was given query words, all of them empty or of whitespace only, and
\* single_query_mode has called consult
BlankSingleQuery ==
    /\ args.query # <<>>
    /\ \A i \in 1..Len(args.query) :
           \A k \in 1..Len(args.query[i]) : args.query[i][k] \in Whitespace
    /\ consult_calls # <<>>

\* C16: in single query mode with a joined query of whitespace only, consult
\* raises ValueError without invoking the backend and returns no response;
\* the error leaves single_query_mode and the with block, which stops all
\* four sessions, and reaches except Exception of main, which returns 1.
\* No exchange is recorded, save_conversation is not called and no file is
\* written.
Claim16_BlankQueryFails ==
    BlankSingleQuery =>
        /\ Len(consult_calls) = 1
        /\ last_consult.raises = "ValueError"
        /\ ~last_consult.invoked
        /\ agent_calls = <<>>
        /\ pending = "ValueError"
        /\ response = <<>>
        /\ history = <<>>
        /\ ~save.called
        /\ files = {}
        /\ pc \in {"exit", "except", "done"}
        /\ result \in {"running", "return 1"}
        /\ pc \in {"except", "done"} =>
               \A p \in Providers : sess[p] = "Closed"
        /\ pc = "done" => result = "return 1"

\* python main.py " " ended: consult raised, nothing was recorded or
\* written, the four sessions are closed and main returned 1
Witness16_BlankArgumentReturned1 ==
    /\ args.query = <<<<" ">>>>
    /\ consult_calls = <<<<" ">>>>
    /\ last_consult.raises = "ValueError"
    /\ closed = ReleaseOrder
    /\ files = {}
    /\ result = "return 1"

====
